---- MODULE Spec2Model ----
(***************************************************************************)
(* DockerResource lifecycle (phi/docker/resource/base.py): one resource,   *)
(* its nullable cache field active_resource, its skip flags, and the       *)
(* object it stands for on the docker backend.                             *)
(*                                                                         *)
(*   Spec       a concrete resource, its methods called one at a time      *)
(*   SpecRaise  the same, on a backend one of whose primitives raises      *)
(*   SpecBase   a resource that keeps the base class's _read               *)
(*   SpecConc   two threads inside create/update/delete of one resource    *)
(*   SpecBatch  the reconciliation engine applying an ordered batch        *)
(*                                                                         *)
(* Assistant and Thread (phi/assistant/assistant.py, thread.py): one       *)
(* object of either class, its id, its cached remote object, and the       *)
(* OpenAI service it talks to.                                             *)
(*                                                                         *)
(*   SpecAssistant  the methods of one Assistant or one Thread, called one *)
(*                  at a time against a service whose calls may raise      *)
(***************************************************************************)
EXTENDS Integers, Sequences, FiniteSets, TLC

\* Number of distinct live objects the backend can hand out.
MaxObj == 2
\* Number of most recent operations kept in the log.
MaxHist == 2
\* Number of resources in a batch.
NRes == 3
\* Number of ids the OpenAI service can hand out to new objects.
MaxIds == 2
\* Number of distinct messages a caller has at hand, and so the length of
\* the longest list passed to one call.
MaxMsg == 2
\* Largest position, among the API calls of one method call, at which the
\* service can be made to raise.
MaxFail == 3

\* Python's None: the backend has no object / the cache field is empty.
None == 0
\* Python's False, the value the base class's undefined _read returns.
PyFalse == -1
\* No backend read has been made yet.
NotRead == -2
\* The live objects a backend read can return.
Objs == 1..MaxObj

VARIABLES
    use_cache,        \* InfraResource.use_cache
    skip_create,      \* InfraResource.skip_create
    skip_update,      \* InfraResource.skip_update
    skip_delete,      \* InfraResource.skip_delete
    active_resource,  \* the cache: None or the object of the last is_active read
    remote,           \* the backend: None or the live object
    queried,          \* TRUE once is_active has written the cache
    history,          \* log of the last MaxHist operations on the resource
    read_defined,     \* TRUE when the resource's class overrides _read
    fault,            \* the backend primitive that raises when called, or "none"
    last_read,        \* result of the most recent backend read of any query
    last_active_read, \* result of the most recent backend read of is_active
    pc,               \* per caller thread: the line of the call it is at
    ctrace,           \* backend calls of the threads' current calls, in order
    cstart,           \* the backend's object when those calls began
    b_op,             \* batch: the operation being applied, or "none"
    b_order,          \* batch: the resources in the caller's order
    b_pos,            \* batch: position in b_order of the next resource
    b_cache,          \* batch: each resource's active_resource
    b_remote,         \* batch: each resource's object on the backend
    b_log,            \* batch: the resource operations completed, in order
    b_calls,          \* batch: the backend calls recorded, in order
    succeeded,        \* batch: resources whose operation returned True
    failed,           \* batch: resources whose operation returned False
    b_ok,             \* batch: the aggregate outcome so far
    a_id,             \* Assistant.id
    openai_assistant, \* Assistant.openai_assistant, by its id, or None
    files,            \* TRUE when Assistant.files holds a file
    a_next,           \* service: number of assistant ids handed out
    a_live,           \* service: ids of the assistants that exist
    t_id,             \* Thread.id
    openai_thread,    \* Thread.openai_thread, by its id, or None
    t_next,           \* service: number of thread ids handed out
    t_live,           \* service: ids of the threads that exist
    ai_kind,          \* the class of the object the calls are made on
    ai_log,           \* the last call made on that object, if any
    goc_only,         \* TRUE while the object, built with no id, has only
                      \* seen get_or_create calls that returned
    n_create          \* create calls the object has sent to the service

flags == <<use_cache, skip_create, skip_update, skip_delete>>

\* What the resource's class and its backend client are like.
env == <<read_defined, fault>>

resource == <<active_resource, remote, queried, history,
              last_read, last_active_read>>

\* The operations that may change the backend.
LifecycleOps == {"create", "update", "delete"}

\* Calls in progress on caller threads.
conc == <<pc, ctrace, cstart>>

\* The threads that may call into the same resource at once.
Threads == {1, 2}

\* The resources of a batch, and the batch being applied.
Res == 1..NRes

batch == <<b_op, b_order, b_pos, b_cache, b_remote, b_log, b_calls,
           succeeded, failed, b_ok>>

\* One Assistant, one Thread, and the OpenAI service behind them.
assistant == <<a_id, openai_assistant, files, a_next, a_live,
               t_id, openai_thread, t_next, t_live,
               ai_kind, ai_log, goc_only, n_create>>

----------------------------------------------------------------------------
\* A running call: the resource's cache, the backend's object and the backend
\* primitives invoked so far.  Every method below maps such a state to the
\* state it leaves and the value it returns.

\* One recorded backend primitive call.  For a read, obj is the value the read
\* returned; for create/update/delete, ok is the primitive's boolean result and
\* obj the object the backend holds once it returned.
Call(prim, ok, obj) == [prim |-> prim, ok |-> ok, obj |-> obj]

Start == [active_resource |-> active_resource, remote |-> remote,
          queried |-> queried, calls |-> <<>>, raised |-> FALSE,
          last_read |-> last_read, last_active_read |-> last_active_read]

\* The primitive prim raised: the exception unwinds the running call, which
\* returns nothing (no method of DockerResource has an except clause).
Raise(s, prim) ==
    [s EXCEPT !.calls = Append(@, Call(prim, FALSE, s.remote)),
              !.raised = TRUE]

\* _read: a concrete resource returns the live object, or None; the base class
\* returns False.
_read(s) ==
    IF fault = "read"
    THEN [st |-> Raise(s, "read"), ret |-> None]
    ELSE LET v == IF read_defined THEN s.remote ELSE PyFalse
         IN  [st  |-> [s EXCEPT !.calls = Append(@, Call("read", TRUE, v)),
                                !.last_read = v],
              ret |-> v]

\* read() that never consults the cache.
read_IgnoreCache(s) == _read(s)

\* read() that returns a cached object whatever use_cache says.
read_AlwaysCache(s) ==
    IF s.active_resource # None
    THEN [st |-> s, ret |-> s.active_resource]
    ELSE _read(s)

\* read(): the cached object when use_cache and the cache is not None,
\* otherwise a backend read whose result is returned and not stored.
read(s) ==
    IF use_cache /\ s.active_resource # None
    THEN [st |-> s, ret |-> s.active_resource]
    ELSE _read(s)

\* is_active() with the test inverted (is None for is not None).
is_active_Negated(s) ==
    LET r == _read(s)
    IN  [st  |-> [r.st EXCEPT !.active_resource = r.ret, !.queried = TRUE,
                              !.last_active_read = r.ret],
         ret |-> r.ret = None]

\* is_active() that goes through the cache-respecting read().
is_active_Cached(s) ==
    LET r == read(s)
    IN  [st  |-> [r.st EXCEPT !.active_resource = r.ret, !.queried = TRUE,
                              !.last_active_read = r.ret],
         ret |-> r.ret # None]

\* is_active(): always a backend read, stored in the cache.
is_active(s) ==
    LET r == _read(s)
    IN  IF r.st.raised
        THEN [st |-> r.st, ret |-> FALSE]
        ELSE [st  |-> [r.st EXCEPT !.active_resource = r.ret,
                                   !.queried = TRUE,
                                   !.last_active_read = r.ret],
              ret |-> r.ret # None]

\* _create: the backend's create primitive.  It returns ok; when it succeeds
\* the backend holds the object obj.
_create(s, ok, obj) ==
    IF fault = "create"
    THEN [st |-> Raise(s, "create"), ret |-> FALSE]
    ELSE LET after == IF ok THEN obj ELSE s.remote
         IN  [st  |-> [s EXCEPT !.remote = after,
                                !.calls = Append(@, Call("create", ok, after))],
              ret |-> ok]

\* create() that trusts the cache field instead of asking the backend.
create_TrustCache(s, ok, obj) ==
    IF skip_create
    THEN [st |-> s, ret |-> TRUE]
    ELSE IF use_cache /\ s.active_resource # None
         THEN [st |-> s, ret |-> TRUE]
         ELSE _create(s, ok, obj)

\* create() without the skip_create short-circuit.
create_NoSkip(s, ok, obj) ==
    IF use_cache
    THEN LET a == is_active(s)
         IN  IF a.ret
             THEN [st |-> a.st, ret |-> TRUE]
             ELSE _create(a.st, ok, obj)
    ELSE _create(s, ok, obj)

\* create() that reports an object that already exists as a failure.
create_ExistsIsError(s, ok, obj) ==
    IF skip_create
    THEN [st |-> s, ret |-> TRUE]
    ELSE IF use_cache
         THEN LET a == is_active(s)
              IN  IF a.ret
                  THEN [st |-> a.st, ret |-> FALSE]
                  ELSE _create(a.st, ok, obj)
         ELSE _create(s, ok, obj)

\* create() that queries the backend and creates whatever the answer.
create_NoCheck(s, ok, obj) ==
    IF skip_create
    THEN [st |-> s, ret |-> TRUE]
    ELSE IF use_cache
         THEN _create(is_active(s).st, ok, obj)
         ELSE _create(s, ok, obj)

\* create() that tries the create primitive a second time when it fails.
create_Retry(s, ok, obj) ==
    IF skip_create
    THEN [st |-> s, ret |-> TRUE]
    ELSE LET c == _create(IF use_cache THEN is_active(s).st ELSE s, ok, obj)
         IN  IF use_cache /\ is_active(s).ret
             THEN [st |-> is_active(s).st, ret |-> TRUE]
             ELSE IF c.ret THEN c ELSE _create(c.st, ok, obj)

\* create(): with use_cache, an object found by is_active counts as created;
\* without use_cache the create primitive is invoked unconditionally.
create(s, ok, obj) ==
    IF skip_create
    THEN [st |-> s, ret |-> TRUE]
    ELSE IF use_cache
         THEN LET a == is_active(s)
              IN  IF a.st.raised
                  THEN a
                  ELSE IF a.ret
                       THEN [st |-> a.st, ret |-> TRUE]
                       ELSE _create(a.st, ok, obj)
         ELSE _create(s, ok, obj)

\* _update: the backend's update primitive; a successful update replaces the
\* live object by obj.
_update(s, ok, obj) ==
    IF fault = "update"
    THEN [st |-> Raise(s, "update"), ret |-> FALSE]
    ELSE LET after == IF ok THEN obj ELSE s.remote
         IN  [st  |-> [s EXCEPT !.remote = after,
                                !.calls = Append(@, Call("update", ok, after))],
              ret |-> ok]

\* update() that fails on an inactive object instead of creating it.
update_NoFallback(s, ok, obj) ==
    IF skip_update
    THEN [st |-> s, ret |-> TRUE]
    ELSE LET a == is_active(s)
         IN  IF a.ret
             THEN _update(a.st, ok, obj)
             ELSE [st |-> a.st, ret |-> FALSE]

\* update() that keeps the updated object in the cache.
update_StoresResult(s, ok, obj) ==
    IF skip_update
    THEN [st |-> s, ret |-> TRUE]
    ELSE LET a == is_active(s)
         IN  IF a.ret
             THEN LET u == _update(a.st, ok, obj)
                  IN  [st  |-> [u.st EXCEPT !.active_resource = u.st.remote],
                       ret |-> u.ret]
             ELSE create(a.st, ok, obj)

\* update() that reports success whatever the update primitive returned.
update_SwallowResult(s, ok, obj) ==
    IF skip_update
    THEN [st |-> s, ret |-> TRUE]
    ELSE LET a == is_active(s)
         IN  IF a.ret
             THEN [st |-> _update(a.st, ok, obj).st, ret |-> TRUE]
             ELSE create(a.st, ok, obj)

\* update() that falls back to the create primitive, not to create().
update_DirectCreate(s, ok, obj) ==
    IF skip_update
    THEN [st |-> s, ret |-> TRUE]
    ELSE LET a == is_active(s)
         IN  IF a.ret
             THEN _update(a.st, ok, obj)
             ELSE _create(a.st, ok, obj)

\* update(): falls back to create() when the object is not active.
update(s, ok, obj) ==
    IF skip_update
    THEN [st |-> s, ret |-> TRUE]
    ELSE LET a == is_active(s)
         IN  IF a.st.raised
             THEN a
             ELSE IF a.ret
                  THEN _update(a.st, ok, obj)
                  ELSE create(a.st, ok, obj)

\* _delete: the backend's delete primitive; a successful delete removes the
\* live object.
_delete(s, ok) ==
    IF fault = "delete"
    THEN [st |-> Raise(s, "delete"), ret |-> FALSE]
    ELSE LET after == IF ok THEN None ELSE s.remote
         IN  [st  |-> [s EXCEPT !.remote = after,
                                !.calls = Append(@, Call("delete", ok, after))],
              ret |-> ok]

\* delete() that invokes the delete primitive without the is_active test.
delete_NoCheck(s, ok) ==
    IF skip_delete
    THEN [st |-> s, ret |-> TRUE]
    ELSE _delete(is_active(s).st, ok)

\* delete() that empties the cache once the delete primitive succeeded.
delete_ClearsCache(s, ok) ==
    IF skip_delete
    THEN [st |-> s, ret |-> TRUE]
    ELSE LET a == is_active(s)
         IN  IF a.ret
             THEN LET d == _delete(a.st, ok)
                  IN  [st  |-> [d.st EXCEPT !.active_resource =
                                       IF d.ret THEN None ELSE @],
                       ret |-> d.ret]
             ELSE [st |-> a.st, ret |-> TRUE]

\* delete()
delete(s, ok) ==
    IF skip_delete
    THEN [st |-> s, ret |-> TRUE]
    ELSE LET a == is_active(s)
         IN  IF a.st.raised
             THEN a
             ELSE IF a.ret
                  THEN _delete(a.st, ok)
                  ELSE [st |-> a.st, ret |-> TRUE]

----------------------------------------------------------------------------
\* The log entry of one completed operation.  ret is the boolean a
\* create/update/delete/is_active call returned; val is the object (or None)
\* a read call returned; raised tells that the call returned nothing because
\* an exception left it.
Entry(op, s, ret, val) ==
    [op |-> op, ret |-> ret, val |-> val, calls |-> s.calls,
     raised |-> s.raised,
     cache0 |-> active_resource, remote0 |-> remote, queried0 |-> queried,
     cache1 |-> s.active_resource, remote1 |-> s.remote]

Log(e) ==
    IF Len(history) < MaxHist THEN Append(history, e)
    ELSE Append(Tail(history), e)

\* The operation returned: its effects on the cache and the backend are
\* installed and the call is logged.
Finish(op, r, ret, val) ==
    /\ active_resource' = r.st.active_resource
    /\ remote' = r.st.remote
    /\ queried' = r.st.queried
    /\ last_read' = r.st.last_read
    /\ last_active_read' = r.st.last_active_read
    /\ history' = Log(Entry(op, r.st, ret, val))
    /\ UNCHANGED <<flags, env, conc, batch, assistant>>

\* No Assistant and no Thread is in use.
NoAssistant ==
    /\ a_id = None /\ openai_assistant = None /\ files = FALSE
    /\ a_next = 0 /\ a_live = {}
    /\ t_id = None /\ openai_thread = None
    /\ t_next = 0 /\ t_live = {}
    /\ ai_kind = "none" /\ ai_log = <<>>
    /\ goc_only = FALSE /\ n_create = 0

\* A freshly constructed resource, with any flags, facing any backend state.
InitResource ==
    /\ use_cache \in BOOLEAN
    /\ skip_create \in BOOLEAN
    /\ skip_update \in BOOLEAN
    /\ skip_delete \in BOOLEAN
    /\ active_resource = None
    /\ remote \in {None} \cup Objs
    /\ queried = FALSE
    /\ history = <<>>
    /\ last_read = NotRead
    /\ last_active_read = NotRead
    /\ pc = [t \in Threads |-> "idle"]
    /\ ctrace = <<>>
    /\ cstart = None
    /\ b_op = "none"
    /\ b_order = <<>>
    /\ b_pos = 1
    /\ b_cache = [r \in Res |-> None]
    /\ b_log = <<>>
    /\ b_calls = <<>>
    /\ succeeded = {}
    /\ failed = {}
    /\ b_ok = TRUE

\* A concrete resource (its class defines _read) on a backend whose
\* primitives return normally.
Init ==
    /\ InitResource
    /\ NoAssistant
    /\ b_remote = [r \in Res |-> None]
    /\ read_defined = TRUE
    /\ fault = "none"

Read ==
    LET r == read(Start) IN Finish("read", r, TRUE, r.ret)

IsActive ==
    LET r == is_active(Start) IN Finish("is_active", r, r.ret, None)

Create ==
    \E ok \in BOOLEAN, obj \in Objs :
        LET r == create(Start, ok, obj) IN Finish("create", r, r.ret, None)

Update ==
    \E ok \in BOOLEAN, obj \in Objs :
        LET r == update(Start, ok, obj) IN Finish("update", r, r.ret, None)

Delete ==
    \E ok \in BOOLEAN :
        LET r == delete(Start, ok) IN Finish("delete", r, r.ret, None)

Next == Read \/ IsActive \/ Create \/ Update \/ Delete

vars == <<flags, env, resource, conc, batch, assistant>>

Spec == Init /\ [][Next]_vars

\* The backend primitives a call can fail in.
Prims == {"read", "create", "update", "delete"}

\* A concrete resource on a backend one of whose primitives raises.
InitRaise ==
    /\ InitResource
    /\ NoAssistant
    /\ b_remote = [r \in Res |-> None]
    /\ read_defined = TRUE
    /\ fault \in Prims

SpecRaise == InitRaise /\ [][Next]_vars

----------------------------------------------------------------------------
\* Two threads calling create(), update() or delete() on the same resource.
\* A thread can be preempted between the statements of a method: after the
\* guard of lines 47-50, 68-71 or 85-88 (skip test and is_active) and before
\* the backend primitive of line 53, 72 or 89.

\* The state st reached by a thread's step becomes the shared state, and the
\* backend calls the step made are appended to the trace under t's name.
Install(t, st) ==
    /\ active_resource' = st.active_resource
    /\ remote' = st.remote
    /\ queried' = st.queried
    /\ last_read' = st.last_read
    /\ last_active_read' = st.last_active_read
    /\ ctrace' = ctrace \o [k \in 1..Len(st.calls) |->
                               [t |-> t, prim |-> st.calls[k].prim,
                                ok |-> st.calls[k].ok, obj |-> st.calls[k].obj]]
    /\ UNCHANGED <<flags, env, history, cstart, batch, assistant>>

Goto(t, line) == pc' = [pc EXCEPT ![t] = line]

\* Thread t calls create(), update() or delete(); the first call made while
\* no other is running opens a new trace.
T_Call(t) ==
    /\ pc[t] = "idle"
    /\ \E op \in LifecycleOps : Goto(t, op)
    /\ IF \A u \in Threads : pc[u] = "idle"
       THEN ctrace' = <<>> /\ cstart' = remote
       ELSE UNCHANGED <<ctrace, cstart>>
    /\ UNCHANGED <<flags, env, resource, batch, assistant>>

\* create(), lines 47-52.
T_CreateGuard(t) ==
    /\ pc[t] = "create"
    /\ IF skip_create
       THEN Install(t, Start) /\ Goto(t, "done")
       ELSE IF use_cache
            THEN LET a == is_active(Start)
                 IN  /\ Install(t, a.st)
                     /\ Goto(t, IF a.ret THEN "done" ELSE "create_act")
            ELSE Install(t, Start) /\ Goto(t, "create_act")

\* create(), lines 53-58.
T_CreateAct(t) ==
    /\ pc[t] = "create_act"
    /\ \E ok \in BOOLEAN, obj \in Objs :
          Install(t, _create(Start, ok, obj).st)
    /\ Goto(t, "done")

\* update(), lines 68-71 and 74-75.
T_UpdateGuard(t) ==
    /\ pc[t] = "update"
    /\ IF skip_update
       THEN Install(t, Start) /\ Goto(t, "done")
       ELSE LET a == is_active(Start)
            IN  /\ Install(t, a.st)
                /\ Goto(t, IF a.ret THEN "update_act" ELSE "create")

\* update(), line 72.
T_UpdateAct(t) ==
    /\ pc[t] = "update_act"
    /\ \E ok \in BOOLEAN, obj \in Objs :
          Install(t, _update(Start, ok, obj).st)
    /\ Goto(t, "done")

\* delete(), lines 85-88 and 90-92.
T_DeleteGuard(t) ==
    /\ pc[t] = "delete"
    /\ IF skip_delete
       THEN Install(t, Start) /\ Goto(t, "done")
       ELSE LET a == is_active(Start)
            IN  /\ Install(t, a.st)
                /\ Goto(t, IF a.ret THEN "delete_act" ELSE "done")

\* delete(), line 89.
T_DeleteAct(t) ==
    /\ pc[t] = "delete_act"
    /\ \E ok \in BOOLEAN : Install(t, _delete(Start, ok).st)
    /\ Goto(t, "done")

\* Every thread's call has returned; the threads are free to call again.
T_Return ==
    /\ \A t \in Threads : pc[t] = "done"
    /\ pc' = [t \in Threads |-> "idle"]
    /\ UNCHANGED <<flags, env, resource, ctrace, cstart, batch, assistant>>

NextConc ==
    \/ \E t \in Threads :
          \/ T_Call(t)
          \/ T_CreateGuard(t)
          \/ T_CreateAct(t)
          \/ T_UpdateGuard(t)
          \/ T_UpdateAct(t)
          \/ T_DeleteGuard(t)
          \/ T_DeleteAct(t)
    \/ T_Return

SpecConc == Init /\ [][NextConc]_vars

----------------------------------------------------------------------------
\* The reconciliation engine: apply(resources, operation, backend) runs the
\* operation on each resource of the caller's sequence and collects the
\* succeeded and failed sets and the aggregate outcome.  The resources of one
\* batch share the values of use_cache and of the skip flags.

\* The orders a caller can supply: the sequences naming each resource once.
Orders ==
    {o \in [1..NRes -> Res] : \A i, j \in 1..NRes : o[i] = o[j] => i = j}

\* The engine that walks the resources in their declaration order.
NextResource_Declared(order, pos) == pos

\* The resource the engine turns to at step pos of the caller's order.
NextResource(order, pos) == order[pos]

\* The engine that gives up at the first failure.
Remaining_FailFast(order, pos, ok) == ok /\ pos <= Len(order)

\* The engine still has a resource to attempt: every resource of the order,
\* whatever the outcomes so far.
Remaining(order, pos, ok) == pos <= Len(order)

\* The object a resource of the batch has on the backend when it has one.
Live == CHOOSE o \in Objs : TRUE

\* Resource r at the entry of one of its methods.
StartOf(r) ==
    [active_resource |-> b_cache[r], remote |-> b_remote[r],
     queried |-> FALSE, calls |-> <<>>, raised |-> FALSE,
     last_read |-> NotRead, last_active_read |-> NotRead]

\* The operation op applied to resource r.
Run(op, r, ok, obj) ==
    IF op = "create" THEN create(StartOf(r), ok, obj)
    ELSE IF op = "update" THEN update(StartOf(r), ok, obj)
    ELSE delete(StartOf(r), ok)

\* apply() is called with an operation and an order.  One engine run is
\* followed from its call to its end; the resources may be in any state on
\* the backend when it starts.
B_Apply ==
    /\ b_op = "none"
    /\ b_op' \in LifecycleOps
    /\ b_order' \in Orders
    /\ b_pos' = 1
    /\ b_log' = <<>>
    /\ b_calls' = <<>>
    /\ succeeded' = {}
    /\ failed' = {}
    /\ b_ok' = TRUE
    /\ UNCHANGED <<flags, env, resource, conc, b_cache, b_remote, assistant>>

\* The engine runs the operation on the next resource and files its outcome.
B_Step ==
    /\ b_op \in LifecycleOps
    /\ Remaining(b_order, b_pos, b_ok)
    /\ \E ok \in BOOLEAN :
          LET r   == NextResource(b_order, b_pos)
              res == Run(b_op, r, ok, Live)
          IN  /\ b_cache' = [b_cache EXCEPT ![r] = res.st.active_resource]
              /\ b_remote' = [b_remote EXCEPT ![r] = res.st.remote]
              /\ b_log' = Append(b_log, [res |-> r, ret |-> res.ret,
                                         remote0 |-> b_remote[r],
                                         calls |-> res.st.calls])
              /\ b_calls' = b_calls \o
                     [k \in 1..Len(res.st.calls) |->
                         [res |-> r, prim |-> res.st.calls[k].prim]]
              /\ succeeded' = IF res.ret THEN succeeded \cup {r} ELSE succeeded
              /\ failed' = IF res.ret THEN failed ELSE failed \cup {r}
              /\ b_ok' = (b_ok /\ res.ret)
    /\ b_pos' = b_pos + 1
    /\ UNCHANGED <<flags, env, resource, conc, b_op, b_order, assistant>>

NextBatch == B_Apply \/ B_Step

\* Resources with any flags, each present or absent on the backend.
InitBatch ==
    /\ InitResource
    /\ NoAssistant
    /\ read_defined = TRUE
    /\ fault = "none"
    /\ remote = None
    /\ b_remote \in [Res -> {None, Live}]

SpecBatch == InitBatch /\ [][NextBatch]_vars

\* A resource of a class that leaves the base class's _read in place.
InitBase ==
    /\ InitResource
    /\ NoAssistant
    /\ b_remote = [r \in Res |-> None]
    /\ read_defined = FALSE
    /\ fault = "none"

SpecBase == InitBase /\ [][Next]_vars

----------------------------------------------------------------------------
\* Assistant and Thread (phi/assistant/assistant.py, phi/assistant/thread.py).
\*
\* A running method call: the object's id and cached remote object (held by
\* its id), the ids the service holds, the API calls sent so far, and the
\* exception that has left the call, if any.  fail is the position, among the
\* API calls of this method call, at which the service raises (0: nowhere).
\* Every method below maps such a state to the state it leaves and the value
\* it returns.

\* The messages a caller can pass, and the lists of them.
Msgs == 1..MaxMsg

\* The lists a caller passes: messages are told apart only by their place
\* in the list, so a list of n messages is <<1, ..., n>>.
MsgLists == {[i \in 1..n |-> i] : n \in 0..MaxMsg}

\* One API call as the service receives it: the endpoint, the id it is
\* addressed to (None for a create) and the messages it carries.
Issue(s, api, id, msgs) ==
    [s EXCEPT !.calls = Append(@, [api |-> api, id |-> id, msgs |-> msgs])]

\* The API call about to be sent is the one the service raises on.
Fails(s) == s.fail = Len(s.calls) + 1

Throw(s, exc) == [s EXCEPT !.exc = exc]

\* Mutant of Assistant_load_from_openai: the cached object is stored, the id
\* is left as it was.
Assistant_load_from_openai_KeepsId(s, obj) ==
    [s EXCEPT !.cached = obj]

Assistant_load_from_openai(s, obj) ==
    [s EXCEPT !.id = obj, !.cached = obj]

\* for _file in self.files: _file.get_or_create(), then assistants.create.
Assistant_create(s) ==
    LET f == IF s.files THEN Issue(s, "file.get_or_create", None, <<>>)
             ELSE s
        c == Issue(f, "create", None, <<>>)
        new == s.next + 1
    IN  IF s.files /\ Fails(s)
        THEN [st |-> Throw(f, "APIError"), ret |-> None]
        ELSE IF Fails(f)
        THEN [st |-> Throw(c, "APIError"), ret |-> None]
        ELSE [st |-> Assistant_load_from_openai(
                         [c EXCEPT !.next = new, !.live = @ \cup {new}], new),
              ret |-> new]

\* _id = self.id or self.openai_assistant.id if self.openai_assistant else None
\* is a conditional expression whose first branch is the whole "or".
Assistant_get_id(s) ==
    LET _id == IF s.cached # None
               THEN (IF s.id # None THEN s.id ELSE s.cached)
               ELSE None
    IN  IF _id = None THEN s.id ELSE _id

Assistant_get_from_openai(s) ==
    LET _assistant_id == Assistant_get_id(s)
        c == Issue(s, "retrieve", _assistant_id, <<>>)
    IN  IF _assistant_id = None
        THEN [st |-> Throw(s, "IdNotSet"), ret |-> None]
        ELSE IF Fails(s) \/ _assistant_id \notin s.live
        THEN [st |-> Throw(c, "APIError"), ret |-> None]
        ELSE [st |-> Assistant_load_from_openai(c, _assistant_id),
              ret |-> _assistant_id]

\* Mutant of Assistant_get: the cached object is never used.
Assistant_get_IgnoreCache(s, cache) ==
    LET g == Assistant_get_from_openai(s) IN
    [st |-> g.st, ret |-> IF g.st.exc = "none" THEN g.st.id ELSE None]

Assistant_get(s, cache) ==
    IF s.cached # None /\ cache
    THEN [st |-> s, ret |-> s.id]
    ELSE LET g == Assistant_get_from_openai(s) IN
         [st |-> g.st, ret |-> IF g.st.exc = "none" THEN g.st.id ELSE None]

Assistant_get_or_create(s, cache) ==
    LET g == Assistant_get(s, cache) IN
    IF g.st.exc = "IdNotSet"
    THEN Assistant_create(Throw(g.st, "none"))
    ELSE g

\* Mutant of Assistant_update: a cached object stands in for the retrieve.
Assistant_update_UsesCache(s) ==
    LET g == IF s.cached # None THEN [st |-> s, ret |-> s.cached]
             ELSE Assistant_get_from_openai(s)
        f == IF s.files THEN Issue(g.st, "file.get", None, <<>>) ELSE g.st
        c == Issue(f, "update", g.ret, <<>>)
    IN  IF g.st.exc # "none"
        THEN g
        ELSE IF Fails(f) \/ g.ret \notin f.live
        THEN [st |-> Throw(c, "APIError"), ret |-> None]
        ELSE [st |-> Assistant_load_from_openai(c, g.ret), ret |-> g.ret]

\* An exception of _file.get() is logged and the loop continues.
Assistant_update(s) ==
    LET g == Assistant_get_from_openai(s)
        f == IF s.files THEN Issue(g.st, "file.get", None, <<>>) ELSE g.st
        c == Issue(f, "update", g.ret, <<>>)
    IN  IF g.st.exc # "none"
        THEN g
        ELSE IF Fails(f) \/ g.ret \notin f.live
        THEN [st |-> Throw(c, "APIError"), ret |-> None]
        ELSE [st |-> Assistant_load_from_openai(c, g.ret), ret |-> g.ret]

\* Mutant of Assistant_delete: a successful delete forgets the id and the
\* cached object.
Assistant_delete_ClearsLocal(s) ==
    LET g == Assistant_get_from_openai(s)
        c == Issue(g.st, "delete", g.ret, <<>>)
    IN  IF g.st.exc # "none"
        THEN g
        ELSE IF Fails(g.st) \/ g.ret \notin g.st.live
        THEN [st |-> Throw(c, "APIError"), ret |-> None]
        ELSE [st |-> [c EXCEPT !.live = @ \ {g.ret},
                               !.id = None, !.cached = None],
              ret |-> g.ret]

Assistant_delete(s) ==
    LET g == Assistant_get_from_openai(s)
        c == Issue(g.st, "delete", g.ret, <<>>)
    IN  IF g.st.exc # "none"
        THEN g
        ELSE IF Fails(g.st) \/ g.ret \notin g.st.live
        THEN [st |-> Throw(c, "APIError"), ret |-> None]
        ELSE [st |-> [c EXCEPT !.live = @ \ {g.ret}], ret |-> g.ret]

Thread_load_from_openai(s, obj) ==
    [s EXCEPT !.id = obj, !.cached = obj]

\* One threads.create call whose request body carries all the messages.
Thread_create(s, messages) ==
    LET c == Issue(s, "create", None, messages)
        new == s.next + 1
    IN  IF Fails(s)
        THEN [st |-> Throw(c, "APIError"), ret |-> None]
        ELSE [st |-> Thread_load_from_openai(
                         [c EXCEPT !.next = new, !.live = @ \cup {new}], new),
              ret |-> new]

Thread_get_id(s) ==
    LET _id == IF s.cached # None
               THEN (IF s.id # None THEN s.id ELSE s.cached)
               ELSE None
    IN  IF _id = None THEN s.id ELSE _id

Thread_get_from_openai(s) ==
    LET _thread_id == Thread_get_id(s)
        c == Issue(s, "retrieve", _thread_id, <<>>)
    IN  IF _thread_id = None
        THEN [st |-> Throw(s, "IdNotSet"), ret |-> None]
        ELSE IF Fails(s) \/ _thread_id \notin s.live
        THEN [st |-> Throw(c, "APIError"), ret |-> None]
        ELSE [st |-> Thread_load_from_openai(c, _thread_id),
              ret |-> _thread_id]

Thread_get(s, cache) ==
    IF s.cached # None /\ cache
    THEN [st |-> s, ret |-> s.id]
    ELSE LET g == Thread_get_from_openai(s) IN
         [st |-> g.st, ret |-> IF g.st.exc = "none" THEN g.st.id ELSE None]

Thread_get_or_create(s, cache, messages) ==
    LET g == Thread_get(s, cache) IN
    IF g.st.exc = "IdNotSet"
    THEN Thread_create(Throw(g.st, "none"), messages)
    ELSE g

Thread_update(s) ==
    LET g == Thread_get_from_openai(s)
        c == Issue(g.st, "update", g.ret, <<>>)
    IN  IF g.st.exc # "none"
        THEN g
        ELSE IF Fails(g.st) \/ g.ret \notin g.st.live
        THEN [st |-> Throw(c, "APIError"), ret |-> None]
        ELSE [st |-> Thread_load_from_openai(c, g.ret), ret |-> g.ret]

Thread_delete(s) ==
    LET g == Thread_get_from_openai(s)
        c == Issue(g.st, "delete", g.ret, <<>>)
    IN  IF g.st.exc # "none"
        THEN g
        ELSE IF Fails(g.st) \/ g.ret \notin g.st.live
        THEN [st |-> Throw(c, "APIError"), ret |-> None]
        ELSE [st |-> [c EXCEPT !.live = @ \ {g.ret}], ret |-> g.ret]

\* message.thread_id = self.id; message.create()
Thread_add_message(s, message) ==
    LET c == Issue(s, "message.create", s.id, <<message>>) IN
    IF Fails(s) \/ s.id \notin s.live
    THEN [st |-> Throw(c, "APIError"), ret |-> None]
    ELSE [st |-> c, ret |-> None]

\* for message in messages: self.add_message(message=message)
RECURSIVE add_each(_, _)
add_each(s, messages) ==
    IF messages = <<>> \/ s.exc # "none" THEN s
    ELSE add_each(Thread_add_message(s, Head(messages)).st, Tail(messages))

\* Mutant of Thread_add: the messages always go into a new thread.
Thread_add_AlwaysCreate(s, messages) ==
    [st |-> Thread_create(s, messages).st, ret |-> None]

Thread_add(s, messages) ==
    LET existing_thread == Thread_get_id(s) # None IN
    IF existing_thread
    THEN [st |-> add_each(s, messages), ret |-> None]
    ELSE [st |-> Thread_create(s, messages).st, ret |-> None]

\* Mutant of Thread_run: a thread with no id is created on the way.
Thread_run_AutoCreate(s) ==
    LET g == IF Thread_get_id(s) = None THEN Thread_create(s, <<>>)
             ELSE [st |-> s, ret |-> Thread_get_id(s)]
        c == Issue(g.st, "run", g.ret, <<>>)
    IN  IF g.st.exc # "none"
        THEN g
        ELSE IF Fails(g.st) \/ g.ret \notin g.st.live
        THEN [st |-> Throw(c, "APIError"), ret |-> None]
        ELSE [st |-> c, ret |-> g.ret]

\* The thread id is resolved, then Run.run starts the run on it.
Thread_run(s) ==
    LET g == IF Thread_get_id(s) = None THEN Thread_get_from_openai(s)
             ELSE [st |-> s, ret |-> Thread_get_id(s)]
        c == Issue(g.st, "run", g.ret, <<>>)
    IN  IF g.st.exc # "none"
        THEN g
        ELSE IF Fails(g.st) \/ g.ret \notin g.st.live
        THEN [st |-> Throw(c, "APIError"), ret |-> None]
        ELSE [st |-> c, ret |-> g.ret]

Thread_get_messages(s) ==
    LET g == IF Thread_get_id(s) = None THEN Thread_get_from_openai(s)
             ELSE [st |-> s, ret |-> Thread_get_id(s)]
        c == Issue(g.st, "messages.list", g.ret, <<>>)
    IN  IF g.st.exc # "none"
        THEN g
        ELSE IF Fails(g.st) \/ g.ret \notin g.st.live
        THEN [st |-> Throw(c, "APIError"), ret |-> None]
        ELSE [st |-> c, ret |-> g.ret]

\* print_messages starts by fetching the thread's messages.
Thread_print_messages(s) ==
    [st |-> Thread_get_messages(s).st, ret |-> None]

Thread_print_response(s, message) ==
    LET a == Thread_add(s, <<message>>)
        r == Thread_run(a.st)
    IN  IF a.st.exc # "none" THEN a
        ELSE IF r.st.exc # "none" THEN [st |-> r.st, ret |-> None]
        ELSE Thread_print_messages(r.st)

\* The state a method call on the Assistant, or on the Thread, starts from.
StartAssistant(fail) ==
    [id |-> a_id, cached |-> openai_assistant, files |-> files,
     next |-> a_next, live |-> a_live,
     calls |-> <<>>, exc |-> "none", fail |-> fail]

StartThread(fail) ==
    [id |-> t_id, cached |-> openai_thread, files |-> FALSE,
     next |-> t_next, live |-> t_live,
     calls |-> <<>>, exc |-> "none", fail |-> fail]

\* Positions in a call sequence where the endpoint api was called.
ApiCalls(calls, api) == {k \in 1..Len(calls) : calls[k].api = api}

\* The method call made before the one being logged: its name when it
\* returned, "raised" when an exception left it, "none" when there was none.
Previous ==
    IF ai_log = <<>> THEN "none"
    ELSE IF ai_log[1].exc = "none" THEN ai_log[1].op
    ELSE "raised"

\* One logged method call: its arguments, the object's id and cached remote
\* object before (0) and after (1), the API calls it sent, the exception that
\* left it ("none" when it returned), the value it returned, and the call
\* made before it.
AIEntry(op, cache, messages, s0, r) ==
    [kind |-> ai_kind, op |-> op, use_cache |-> cache, messages |-> messages,
     id0 |-> s0.id, cached0 |-> s0.cached,
     id1 |-> r.st.id, cached1 |-> r.st.cached,
     calls |-> r.st.calls, exc |-> r.st.exc, ret |-> r.ret,
     prev |-> Previous]

\* The method call is over: what it left is installed and the call is logged.
\* The service hands out at most MaxIds ids and receives at most MaxIds
\* create calls.
Done(op, cache, messages, s0, r) ==
    LET creates == Cardinality(ApiCalls(r.st.calls, "create")) IN
    /\ r.st.next <= MaxIds
    /\ n_create + creates <= MaxIds
    /\ n_create' = n_create + creates
    /\ goc_only' = (goc_only /\ op = "get_or_create" /\ r.st.exc = "none")
    /\ ai_log' = <<AIEntry(op, cache, messages, s0, r)>>
    /\ UNCHANGED <<flags, env, resource, conc, batch, ai_kind, files>>

DoneAssistant(op, cache, s0, r) ==
    /\ ai_kind = "assistant"
    /\ a_id' = r.st.id
    /\ openai_assistant' = r.st.cached
    /\ a_next' = r.st.next
    /\ a_live' = r.st.live
    /\ UNCHANGED <<t_id, openai_thread, t_next, t_live>>
    /\ Done(op, cache, <<>>, s0, r)

DoneThread(op, cache, messages, s0, r) ==
    /\ ai_kind = "thread"
    /\ t_id' = r.st.id
    /\ openai_thread' = r.st.cached
    /\ t_next' = r.st.next
    /\ t_live' = r.st.live
    /\ UNCHANGED <<a_id, openai_assistant, a_next, a_live>>
    /\ Done(op, cache, messages, s0, r)

\* A freshly constructed Assistant or Thread: no cached remote object, and
\* either no id or the id of an object made earlier, which the service may
\* still hold or may have deleted.
InitAssistant ==
    /\ InitResource
    /\ ~use_cache /\ ~skip_create /\ ~skip_update /\ ~skip_delete
    /\ remote = None
    /\ b_remote = [r \in Res |-> None]
    /\ read_defined = TRUE
    /\ fault = "none"
    /\ ai_kind \in {"assistant", "thread"}
    /\ openai_assistant = None /\ openai_thread = None
    /\ ai_log = <<>> /\ n_create = 0
    /\ IF ai_kind = "assistant"
       THEN /\ a_next \in 0..1
            /\ a_live \in SUBSET (1..a_next)
            /\ a_id \in {None} \cup (1..a_next)
            /\ files \in BOOLEAN
            /\ t_id = None /\ t_next = 0 /\ t_live = {}
            /\ goc_only = (a_id = None)
       ELSE /\ t_next \in 0..1
            /\ t_live \in SUBSET (1..t_next)
            /\ t_id \in {None} \cup (1..t_next)
            /\ files = FALSE
            /\ a_id = None /\ a_next = 0 /\ a_live = {}
            /\ goc_only = (t_id = None)

AssistantCreate ==
    \E fail \in 0..MaxFail :
        LET s0 == StartAssistant(fail) IN
        DoneAssistant("create", FALSE, s0, Assistant_create(s0))

AssistantGetId ==
    LET s0 == StartAssistant(0) IN
    DoneAssistant("get_id", FALSE, s0,
                  [st |-> s0, ret |-> Assistant_get_id(s0)])

AssistantGet ==
    \E fail \in 0..MaxFail, cache \in BOOLEAN :
        LET s0 == StartAssistant(fail) IN
        DoneAssistant("get", cache, s0, Assistant_get(s0, cache))

AssistantGetOrCreate ==
    \E fail \in 0..MaxFail, cache \in BOOLEAN :
        LET s0 == StartAssistant(fail) IN
        DoneAssistant("get_or_create", cache, s0,
                      Assistant_get_or_create(s0, cache))

AssistantUpdate ==
    \E fail \in 0..MaxFail :
        LET s0 == StartAssistant(fail) IN
        DoneAssistant("update", FALSE, s0, Assistant_update(s0))

AssistantDelete ==
    \E fail \in 0..MaxFail :
        LET s0 == StartAssistant(fail) IN
        DoneAssistant("delete", FALSE, s0, Assistant_delete(s0))

ThreadCreate ==
    \E fail \in 0..MaxFail, messages \in MsgLists :
        LET s0 == StartThread(fail) IN
        DoneThread("create", FALSE, messages, s0, Thread_create(s0, messages))

ThreadGetId ==
    LET s0 == StartThread(0) IN
    DoneThread("get_id", FALSE, <<>>, s0,
               [st |-> s0, ret |-> Thread_get_id(s0)])

ThreadGet ==
    \E fail \in 0..MaxFail, cache \in BOOLEAN :
        LET s0 == StartThread(fail) IN
        DoneThread("get", cache, <<>>, s0, Thread_get(s0, cache))

ThreadGetOrCreate ==
    \E fail \in 0..MaxFail, cache \in BOOLEAN, messages \in MsgLists :
        LET s0 == StartThread(fail) IN
        DoneThread("get_or_create", cache, messages, s0,
                   Thread_get_or_create(s0, cache, messages))

ThreadUpdate ==
    \E fail \in 0..MaxFail :
        LET s0 == StartThread(fail) IN
        DoneThread("update", FALSE, <<>>, s0, Thread_update(s0))

ThreadDelete ==
    \E fail \in 0..MaxFail :
        LET s0 == StartThread(fail) IN
        DoneThread("delete", FALSE, <<>>, s0, Thread_delete(s0))

ThreadAdd ==
    \E fail \in 0..MaxFail, messages \in MsgLists :
        LET s0 == StartThread(fail) IN
        DoneThread("add", FALSE, messages, s0, Thread_add(s0, messages))

ThreadRun ==
    \E fail \in 0..MaxFail :
        LET s0 == StartThread(fail) IN
        DoneThread("run", FALSE, <<>>, s0, Thread_run(s0))

ThreadPrintResponse ==
    \E fail \in 0..MaxFail, message \in Msgs :
        LET s0 == StartThread(fail) IN
        DoneThread("print_response", FALSE, <<message>>, s0,
                   Thread_print_response(s0, message))

NextAssistant ==
    \/ AssistantCreate \/ AssistantGetId \/ AssistantGet
    \/ AssistantGetOrCreate \/ AssistantUpdate \/ AssistantDelete
    \/ ThreadCreate \/ ThreadGetId \/ ThreadGet \/ ThreadGetOrCreate
    \/ ThreadUpdate \/ ThreadDelete \/ ThreadAdd \/ ThreadRun
    \/ ThreadPrintResponse

SpecAssistant == InitAssistant /\ [][NextAssistant]_vars

----------------------------------------------------------------------------
\* Reading the log.

Entries == {history[i] : i \in 1..Len(history)}

\* Positions in e's call sequence where the primitive prim was invoked.
CallsOf(e, prim) == {k \in 1..Len(e.calls) : e.calls[k].prim = prim}

NumCalls(e, prim) == Cardinality(CallsOf(e, prim))

Mutators == {"create", "update", "delete"}

NoMutation(e) == \A k \in 1..Len(e.calls) : e.calls[k].prim \notin Mutators

\* Call k of e comes after a backend read, made in the same operation, that
\* found the object absent.
ReadAbsentBefore(e, k) ==
    \E j \in 1..(k - 1) : e.calls[j].prim = "read" /\ e.calls[j].obj = None

\* The operation made exactly one backend call, a read.
OnlyOneRead(e) == Len(e.calls) = 1 /\ e.calls[1].prim = "read"

\* The operation changed neither the cache nor the backend.
Untouched(e) == e.cache1 = e.cache0 /\ e.remote1 = e.remote0

TypeOK ==
    /\ flags \in BOOLEAN \X BOOLEAN \X BOOLEAN \X BOOLEAN
    /\ active_resource \in {None, PyFalse} \cup Objs
    /\ remote \in {None} \cup Objs
    /\ queried \in BOOLEAN
    /\ read_defined \in BOOLEAN
    /\ fault \in Prims \cup {"none"}
    /\ last_read \in {NotRead, None, PyFalse} \cup Objs
    /\ last_active_read \in {NotRead, None, PyFalse} \cup Objs
    /\ pc \in [Threads -> LifecycleOps \cup
                 {"idle", "done", "create_act", "update_act", "delete_act"}]
    /\ cstart \in {None} \cup Objs
    /\ b_op \in LifecycleOps \cup {"none"}
    /\ b_pos \in 1..(NRes + 1)
    /\ succeeded \subseteq Res /\ failed \subseteq Res
    /\ b_ok \in BOOLEAN
    /\ Len(history) <= MaxHist

----------------------------------------------------------------------------
C2_SkipIsAbsolute ==
    \A e \in Entries :
        (\/ (e.op = "create" /\ skip_create)
         \/ (e.op = "update" /\ skip_update)
         \/ (e.op = "delete" /\ skip_delete)) =>
            (e.ret = TRUE /\ e.calls = <<>> /\ Untouched(e))

C2_Witness ==
    /\ skip_create /\ skip_update /\ skip_delete
    /\ Len(history) = 2
    /\ history[1].op = "create" /\ history[1].remote0 = None
    /\ history[2].op = "delete" /\ history[2].remote0 = None

C4_SelfHealingUpdate ==
    \A e \in Entries :
        (e.op = "update" /\ ~skip_update /\ ~skip_create /\ e.remote0 = None) =>
            /\ NumCalls(e, "create") = 1
            /\ NumCalls(e, "update") = 0
            /\ NumCalls(e, "delete") = 0
            /\ \A k \in CallsOf(e, "create") : e.ret = e.calls[k].ok

C4_Witness ==
    \E e \in Entries :
        /\ e.op = "update" /\ ~skip_update /\ ~skip_create /\ e.remote0 = None
        /\ e.cache0 # None
        /\ e.ret = TRUE /\ e.remote1 # None

\* C5: delete() on an object the backend does not hold returns true and makes
\* no delete call, whatever the cache held before the call.
C5_TrivialDelete ==
    \A e \in Entries :
        (e.op = "delete" /\ e.remote0 = None) =>
            (e.ret = TRUE /\ NumCalls(e, "delete") = 0 /\ e.remote1 = None)

C5_Witness ==
    \E e \in Entries :
        /\ e.op = "delete" /\ e.remote0 = None /\ ~skip_delete
        /\ e.cache0 # None

\* Operations i and i+1 of the log are two create() calls, one right after
\* the other, on an object that was absent before the first, and every
\* create primitive they invoked succeeded and made the object present.
TwoCreates(i) ==
    /\ history[i].op = "create" /\ history[i + 1].op = "create"
    /\ history[i].remote0 = None
    /\ \A j \in {i, i + 1} : \A k \in CallsOf(history[j], "create") :
           history[j].calls[k].ok /\ history[j].calls[k].obj # None

\* C6: with use_cache true, two sequential create() calls that start from an
\* absent object, on a backend whose create primitive succeeds, both return
\* true and invoke the create primitive at most once in total.
C6_IdempotentCreate ==
    \A i \in 1..(Len(history) - 1) :
        (use_cache /\ TwoCreates(i)) =>
            /\ history[i].ret = TRUE /\ history[i + 1].ret = TRUE
            /\ NumCalls(history[i], "create")
                 + NumCalls(history[i + 1], "create") <= 1

C6_Witness ==
    \E i \in 1..(Len(history) - 1) :
        /\ use_cache /\ ~skip_create /\ TwoCreates(i)
        /\ NumCalls(history[i], "create") = 1
        /\ NumCalls(history[i + 1], "create") = 0

\* The create() logged at position i was issued right after a create() that
\* invoked the create primitive and succeeded.
AfterSuccessfulCreate(i) ==
    /\ i > 1
    /\ history[i - 1].op = "create"
    /\ history[i - 1].ret = TRUE
    /\ CallsOf(history[i - 1], "create") # {}

\* C7 as stated: with use_cache true, a create() issued while the resource is
\* known Present (the cache holds a snapshot, or a create() has just
\* succeeded) returns true and makes no backend call, reads included.
C7_Original ==
    \A i \in 1..Len(history) :
        (/\ history[i].op = "create" /\ use_cache
         /\ (history[i].cache0 # None \/ AfterSuccessfulCreate(i))) =>
            (history[i].ret = TRUE /\ history[i].calls = <<>>)

\* C7 (amended): with use_cache true and skip_create false, a create() issued
\* while the object is present on the backend (the cache holding a Present
\* snapshot, or right after a create() that succeeded) returns true and makes
\* exactly one backend call, the read of is_active, and no mutating call.
C7_CreateWhenPresentReadsOnce ==
    \A i \in 1..Len(history) :
        (/\ history[i].op = "create" /\ use_cache /\ ~skip_create
         /\ \/ (history[i].cache0 # None /\ history[i].remote0 # None)
            \/ AfterSuccessfulCreate(i)) =>
            (history[i].ret = TRUE /\ OnlyOneRead(history[i]))

C7_Witness ==
    \E i \in 1..Len(history) :
        /\ history[i].op = "create" /\ use_cache /\ ~skip_create
        /\ AfterSuccessfulCreate(i)
        /\ history[i].cache0 = None
        /\ OnlyOneRead(history[i])

C9_UncachedReadIsFresh ==
    \A e \in Entries :
        (e.op = "read" /\ ~use_cache) =>
            /\ OnlyOneRead(e)
            /\ e.val = e.calls[1].obj
            /\ e.val = e.remote0
            /\ Untouched(e)

C9_Witness ==
    \E e \in Entries :
        /\ e.op = "read" /\ ~use_cache
        /\ e.cache0 # None /\ e.remote0 # None /\ e.cache0 # e.remote0
        /\ e.val = e.remote0

\* C10: is_active() always makes exactly one backend read, for either value of
\* use_cache and whatever the cache holds, stores that read's result in the
\* cache, and returns true exactly when the read found the object present.
C10_IsActiveReadsFresh ==
    \A e \in Entries :
        e.op = "is_active" =>
            /\ OnlyOneRead(e)
            /\ e.calls[1].obj = e.remote0
            /\ e.cache1 = e.calls[1].obj
            /\ e.ret = (e.calls[1].obj # None)
            /\ e.remote1 = e.remote0

C10_Witness ==
    \E e \in Entries :
        /\ e.op = "is_active" /\ use_cache
        /\ e.cache0 # None /\ e.remote0 = None
        /\ e.ret = FALSE /\ e.cache1 = None

----------------------------------------------------------------------------
\* The operation invoked the primitive that raises.
HitFault(e) == \E k \in 1..Len(e.calls) : e.calls[k].prim = fault

\* C11: when a backend primitive raises during create(), update() or
\* delete(), the operation catches the error and returns false: no lifecycle
\* operation is ever left by an exception, each ends with one boolean.
C11_FailureContract ==
    \A e \in Entries :
        e.op \in LifecycleOps =>
            /\ ~e.raised
            /\ e.ret \in BOOLEAN
            /\ HitFault(e) => e.ret = FALSE

\* The value returned by the last backend read of operation e.
LastReadOf(e) ==
    LET ks == CallsOf(e, "read")
    IN  e.calls[CHOOSE k \in ks : \A j \in ks : j <= k].obj

\* C12 as stated: the cache is written only at a query step, with the result
\* of a backend read, never by the result of a mutating primitive; so the
\* cache is either not read yet or equal to the result of the most recent
\* backend read made by a query (read() or is_active()) of the resource.
C12_Original ==
    /\ \A e \in Entries : CallsOf(e, "read") = {} => e.cache1 = e.cache0
    /\ queried => active_resource = last_read

\* C12 (amended): the cache is written only by is_active(), with the result
\* of its backend read: read() and the results of the create, update and
\* delete primitives never change it, so the cache is None while is_active()
\* has not run and afterwards equals the result of the most recent backend
\* read made by is_active().
C12_CacheIsLastActiveRead ==
    /\ \A e \in Entries :
          IF e.op = "read" \/ CallsOf(e, "read") = {}
          THEN e.cache1 = e.cache0
          ELSE e.cache1 = LastReadOf(e)
    /\ queried => active_resource = last_active_read
    /\ ~queried => (active_resource = None /\ last_active_read = NotRead)

\* A delete() whose delete primitive succeeded, leaving the snapshot in the
\* cache, followed by a read() that asked the backend and stored nothing.
C12_Witness ==
    /\ Len(history) = 2
    /\ history[1].op = "delete"
    /\ \E k \in CallsOf(history[1], "delete") : history[1].calls[k].ok
    /\ history[2].op = "read" /\ OnlyOneRead(history[2])
    /\ active_resource # None /\ last_read = None /\ remote = None

\* Positions of thread t's backend calls in the trace.
TraceOf(t) == {k \in 1..Len(ctrace) : ctrace[k].t = t}

\* Position k holds a mutating call that thread t decided on at its is_active
\* read of position i: no call of t lies between them.
ReadThenAct(t, i, k) ==
    /\ i \in TraceOf(t) /\ k \in TraceOf(t) /\ i < k
    /\ ctrace[i].prim = "read" /\ ctrace[k].prim \in Mutators
    /\ \A j \in TraceOf(t) : ~(i < j /\ j < k)

\* C13: with use_cache true, concurrent create/update/delete calls on one
\* resource never interleave inside the read-then-act sequence: no mutating
\* backend call of one thread falls between another thread's is_active read
\* and the mutating call decided on it; and in calls that began on an absent
\* object the create primitive never creates the object twice.
C13_ReadThenActAtomic ==
    use_cache =>
        /\ \A t \in Threads : \A i, k \in TraceOf(t) :
              ReadThenAct(t, i, k) =>
                  \A j \in (i + 1)..(k - 1) : ctrace[j].prim \notin Mutators
        /\ (cstart = None /\ \A j \in 1..Len(ctrace) : ctrace[j].prim # "delete")
              => Cardinality({j \in 1..Len(ctrace) :
                                  ctrace[j].prim = "create" /\ ctrace[j].ok}) <= 1

----------------------------------------------------------------------------
\* The engine run has ended.
BatchDone == b_op \in LifecycleOps /\ ~Remaining(b_order, b_pos, b_ok)

\* How many times the batch's operation was attempted on resource r.
Attempts(r) == Cardinality({i \in 1..Len(b_log) : b_log[i].res = r})

\* C14: a batch attempts its operation on every resource exactly once,
\* whatever failed before; succeeded and failed split the attempted resources
\* by the boolean each returned, and the aggregate is the AND of all of them.
\* A create on an absent resource shows one create call, failed or not.
C14_BatchResilience ==
    /\ \A r \in Res : Attempts(r) <= 1
    /\ BatchDone => \A r \in Res : Attempts(r) = 1
    /\ succeeded = {b_log[i].res : i \in {j \in 1..Len(b_log) : b_log[j].ret}}
    /\ failed = {b_log[i].res : i \in {j \in 1..Len(b_log) : ~b_log[j].ret}}
    /\ succeeded \cap failed = {}
    /\ BatchDone => succeeded \cup failed = Res
    /\ b_ok = \A i \in 1..Len(b_log) : b_log[i].ret
    /\ \A i \in 1..Len(b_log) :
          (b_op = "create" /\ ~skip_create /\ b_log[i].remote0 = None) =>
              NumCalls(b_log[i], "create") = 1

\* A create batch whose first resource failed and whose others succeeded.
C14_Witness ==
    /\ BatchDone /\ b_op = "create" /\ ~skip_create
    /\ \A i \in 1..Len(b_log) :
          /\ b_log[i].remote0 = None
          /\ b_log[i].ret = (i > 1)
    /\ failed = {b_order[1]}
    /\ succeeded = Res \ {b_order[1]}
    /\ b_ok = FALSE

\* Position of resource r in the caller's order.
PosOf(r) == CHOOSE i \in 1..Len(b_order) : b_order[i] = r

\* C15: the operations, and the backend calls recorded during the batch,
\* follow the caller's order exactly: the i-th operation is on the i-th
\* resource of the order, and every call of a resource is recorded before
\* any call of the resources after it.
C15_OrderingFidelity ==
    /\ \A i \in 1..Len(b_log) : b_log[i].res = b_order[i]
    /\ \A i, j \in 1..Len(b_calls) :
          i < j => PosOf(b_calls[i].res) <= PosOf(b_calls[j].res)
    /\ \A i \in 1..Len(b_log) : \A k \in 1..Len(b_log[i].calls) :
          \E j \in 1..Len(b_calls) :
              /\ b_calls[j].res = b_log[i].res
              /\ b_calls[j].prim = b_log[i].calls[k].prim

\* A teardown in reverse declaration order that deleted every resource.
C15_Witness ==
    /\ BatchDone /\ b_op = "delete" /\ ~skip_delete
    /\ b_order = [i \in 1..NRes |-> NRes + 1 - i]
    /\ \A i \in 1..Len(b_log) : NumCalls(b_log[i], "delete") = 1
    /\ \A r \in Res : b_remote[r] = None

----------------------------------------------------------------------------
\* Operation e invoked the primitive prim exactly once, right after a backend
\* read that found the object present, invoked no other mutating primitive
\* and returned that primitive's result.
ActsOnPresent(e, prim) ==
    /\ NumCalls(e, prim) = 1
    /\ \A k \in CallsOf(e, prim) :
          /\ k > 1
          /\ e.calls[k - 1].prim = "read" /\ e.calls[k - 1].obj # None
          /\ e.ret = e.calls[k].ok
    /\ \A k \in 1..Len(e.calls) :
          e.calls[k].prim \in Mutators => e.calls[k].prim = prim

\* C16: with its skip flag false, update() (delete()) invokes the update
\* (delete) primitive only when the is_active read of that same call has just
\* found the object present; it then invokes it exactly once, invokes no
\* other mutating primitive and returns the primitive's result, for either
\* value of use_cache.
C16_ActOnlyOnPresent ==
    \A e \in Entries :
        /\ (e.op = "update" /\ ~skip_update) =>
              /\ e.remote0 # None => ActsOnPresent(e, "update")
              /\ e.remote0 = None => NumCalls(e, "update") = 0
        /\ (e.op = "delete" /\ ~skip_delete) =>
              /\ e.remote0 # None => ActsOnPresent(e, "delete")
              /\ e.remote0 = None => NumCalls(e, "delete") = 0

\* An update whose primitive failed, then a delete whose primitive succeeded.
C16_Witness ==
    /\ Len(history) = 2
    /\ history[1].op = "update" /\ NumCalls(history[1], "update") = 1
    /\ history[1].ret = FALSE
    /\ history[2].op = "delete" /\ NumCalls(history[2], "delete") = 1
    /\ history[2].ret = TRUE /\ remote = None

\* C17: with skip_create false, create() on an object the backend does not
\* hold invokes the create primitive exactly once and returns exactly its
\* result, for either value of use_cache.
C17_CreateOnAbsent ==
    \A e \in Entries :
        (e.op = "create" /\ ~skip_create /\ e.remote0 = None) =>
            /\ NumCalls(e, "create") = 1
            /\ \A k \in CallsOf(e, "create") : e.ret = e.calls[k].ok
            /\ NumCalls(e, "update") = 0 /\ NumCalls(e, "delete") = 0

C17_Witness ==
    /\ Len(history) = 2
    /\ \A i \in 1..2 :
          /\ history[i].op = "create" /\ ~skip_create
          /\ history[i].remote0 = None
    /\ history[1].ret = FALSE /\ history[2].ret = TRUE

\* C18: with skip_update false and skip_create true, update() on an absent
\* object makes exactly one backend read, invokes neither the create nor the
\* update primitive and returns true, the object staying absent.
C18_SkipCreateThroughUpdate ==
    \A e \in Entries :
        (e.op = "update" /\ ~skip_update /\ skip_create /\ e.remote0 = None) =>
            /\ OnlyOneRead(e)
            /\ e.ret = TRUE
            /\ e.remote1 = None

C18_Witness ==
    \E e \in Entries :
        /\ e.op = "update" /\ ~skip_update /\ skip_create /\ use_cache
        /\ e.remote0 = None /\ e.cache0 # None
        /\ e.ret = TRUE /\ e.cache1 = None

\* The delete() logged at position i invoked the delete primitive and
\* returned true, and a read() follows it.
DeleteThenRead(i) ==
    /\ history[i].op = "delete" /\ history[i].ret = TRUE
    /\ CallsOf(history[i], "delete") # {}
    /\ history[i + 1].op = "read"

\* C19: after a delete() that invoked the delete primitive and returned true
\* the cache still holds the Present snapshot read before the deletion; with
\* use_cache true the following read() returns that snapshot without a
\* backend call although the object is gone; and cache and backend, once
\* apart, agree again only through an operation that runs is_active.
C19_StaleAfterDelete ==
    /\ \A i \in 1..(Len(history) - 1) :
          (use_cache /\ DeleteThenRead(i)) =>
              /\ history[i].remote1 = None
              /\ history[i].cache1 # None
              /\ history[i].cache1 = history[i].remote0
              /\ history[i + 1].calls = <<>>
              /\ history[i + 1].val = history[i].cache1
              /\ history[i + 1].remote1 = None
    /\ \A e \in Entries :
          (use_cache /\ e.cache0 # e.remote0 /\ e.cache1 = e.remote1) =>
              (e.op # "read" /\ CallsOf(e, "read") # {})

C19_Witness ==
    /\ use_cache /\ Len(history) = 2 /\ DeleteThenRead(1)
    /\ history[2].val # None /\ remote = None

\* C20: a resource that leaves the base class's _read in place is never
\* reported active: is_active() returns false, update() does not reach the
\* update primitive but falls back to create(), and delete() returns true
\* without the delete primitive.
C20_UndefinedReadIsInactive ==
    ~read_defined =>
        \A e \in Entries :
            /\ e.op = "is_active" => e.ret = FALSE
            /\ (e.op = "update" /\ ~skip_update) => NumCalls(e, "update") = 0
            /\ (e.op = "delete" /\ ~skip_delete) =>
                  (e.ret = TRUE /\ NumCalls(e, "delete") = 0)

----------------------------------------------------------------------------
\* Reading the Assistant/Thread log.

\* A call has been logged; LastCall is that call.
Called == ai_log # <<>>

LastCall == ai_log[1]

NumApi(e, api) == Cardinality(ApiCalls(e.calls, api))

\* The call left the object's id and cached remote object as they were.
LocalUnchanged(e) == e.id1 = e.id0 /\ e.cached1 = e.cached0

\* C21: on an Assistant, and on a Thread, built with no id and no cached
\* remote object, over any sequence of get_or_create calls that all returned,
\* exactly one create call has reached the service, sent by the first of
\* them (which retrieves nothing); every later call with use_cache true
\* sends no API call, and every later call with use_cache false sends exactly
\* one retrieve, for the object's id, and no create.
C21_GetOrCreateCreatesOnce ==
    (goc_only /\ Called) =>
        LET e == LastCall IN
        /\ n_create = 1
        /\ e.id1 # None /\ e.cached1 = e.id1
        /\ IF e.cached0 = None
           THEN /\ e.id0 = None
                /\ NumApi(e, "create") = 1
                /\ NumApi(e, "retrieve") = 0
           ELSE IF e.use_cache
           THEN e.calls = <<>>
           ELSE /\ Len(e.calls) = 1
                /\ e.calls[1].api = "retrieve"
                /\ e.calls[1].id = e.id0

\* A later get_or_create of such a run, with use_cache false, on an
\* Assistant built with no id.
C21_Witness ==
    /\ goc_only /\ Called
    /\ LastCall.kind = "assistant"
    /\ LastCall.prev = "get_or_create"
    /\ LastCall.cached0 # None
    /\ ~LastCall.use_cache
    /\ Len(LastCall.calls) = 1
    /\ n_create = 1

\* C22: on an Assistant and on a Thread built with no cached remote object,
\* after any sequence of method calls (create, get, get_or_create and update
\* among them), whenever the cached remote object is set the local id is the
\* id of that cached object, and get_id() returns that id.
C22_IdentityConsistency ==
    /\ openai_assistant # None =>
           /\ a_id = openai_assistant
           /\ Assistant_get_id(StartAssistant(0)) = openai_assistant
    /\ openai_thread # None =>
           /\ t_id = openai_thread
           /\ Thread_get_id(StartThread(0)) = openai_thread
    /\ (Called /\ LastCall.op = "get_id" /\ LastCall.cached0 # None) =>
           LastCall.ret = LastCall.cached0

\* get_id() called right after an update that returned, on an Assistant
\* the service was asked to create.
C22_Witness ==
    /\ Called
    /\ LastCall.kind = "assistant"
    /\ LastCall.op = "get_id"
    /\ LastCall.prev = "update"
    /\ openai_assistant # None
    /\ LastCall.ret = openai_assistant
    /\ n_create = 1

\* C23: update() and delete() of an Assistant and of a Thread send a
\* retrieve for the object's id as their first API call, cached object or
\* not, and the update or delete call they send afterwards is for the id
\* retrieved; with no id known they raise AssistantIdNotSet / ThreadIdNotSet
\* having sent no API call and leave id and cached object as they were; they
\* never send a create.
C23_MutateAfterFreshRetrieve ==
    (Called /\ LastCall.op \in {"update", "delete"}) =>
        LET e == LastCall IN
        /\ NumApi(e, "create") = 0
        /\ \A k \in ApiCalls(e.calls, "update") \cup ApiCalls(e.calls, "delete") :
               /\ k > 1
               /\ e.calls[k].api = e.op
               /\ e.calls[1].api = "retrieve"
               /\ e.calls[1].id = e.calls[k].id
               /\ e.calls[k].id # None
        /\ (e.id0 # None /\ e.calls # <<>>) => e.calls[1].api = "retrieve"
        /\ (e.id0 = None /\ e.cached0 = None) =>
               /\ e.exc = "IdNotSet"
               /\ e.calls = <<>>
               /\ LocalUnchanged(e)
        /\ e.exc = "IdNotSet" => (e.id0 = None /\ e.calls = <<>>)

\* An update that returned on an Assistant whose cached object was set,
\* so held before the call.
C23_Witness ==
    /\ Called
    /\ LastCall.kind = "assistant"
    /\ LastCall.op = "update"
    /\ LastCall.cached0 # None
    /\ LastCall.exc = "none"
    /\ LastCall.calls[1].api = "retrieve"
    /\ NumApi(LastCall, "update") = 1

\* messages[k], for every k up to n, was sent as its own message-create call
\* number k, bound to the thread id.
SentOneByOne(e, n, id) ==
    \A k \in 1..n :
        /\ e.calls[k].api = "message.create"
        /\ e.calls[k].id = id
        /\ e.calls[k].msgs = <<e.messages[k]>>

\* C24: Thread.add(messages) on a thread that has an id sends one
\* message-create per message, in list order, each bound to the thread's id,
\* and no thread-create (a message-create that raises ends the call, so the
\* calls sent are then a prefix of that list); on a thread with no id it
\* sends exactly one thread-create carrying all the messages and no
\* message-create, and when that call returns the thread has an id.
C24_AddMessages ==
    (Called /\ LastCall.op = "add") =>
        LET e == LastCall IN
        IF e.id0 # None
        THEN /\ NumApi(e, "create") = 0
             /\ Len(e.calls) <= Len(e.messages)
             /\ SentOneByOne(e, Len(e.calls), e.id0)
             /\ e.exc = "none" => Len(e.calls) = Len(e.messages)
             /\ e.id1 = e.id0
        ELSE /\ Len(e.calls) = 1
             /\ e.calls[1].api = "create"
             /\ e.calls[1].msgs = e.messages
             /\ NumApi(e, "message.create") = 0
             /\ e.exc = "none" => (e.id1 # None /\ e.cached1 = e.id1)

\* add() of two messages returned on a thread that had an id: two
\* message-create calls went out.
C24_Witness ==
    /\ Called
    /\ LastCall.op = "add"
    /\ LastCall.id0 # None
    /\ LastCall.exc = "none"
    /\ Len(LastCall.messages) = 2
    /\ Len(LastCall.calls) = 2
    /\ LastCall.calls[2].msgs = <<LastCall.messages[2]>>

\* Call k of e starts a run on a thread to which an earlier call of e has
\* sent the messages of e: a message-create bound to that thread, or the
\* thread-create that made it.
RunAfterAdd(e, k) ==
    \E j \in 1..(k - 1) :
        /\ e.calls[j].msgs = e.messages
        /\ \/ /\ e.calls[j].api = "message.create"
              /\ e.calls[j].id = e.calls[k].id
           \/ /\ e.calls[j].api = "create"
              /\ e.id0 = None
              /\ e.calls[k].id = e.id1

\* C25: Thread.run() on a thread with no id raises ThreadIdNotSet, starts no
\* run, sends no API call and leaves the thread without id; every run that is
\* started is started on the thread's id; in Thread.print_response() the run
\* is started only after the call that adds the user message has been sent
\* (a thread-create when the thread had no id), on the thread that message
\* went to.
C25_RunNeedsThread ==
    /\ (Called /\ LastCall.op = "run") =>
           LET e == LastCall IN
           /\ (e.id0 = None /\ e.cached0 = None) =>
                  /\ e.exc = "IdNotSet"
                  /\ e.calls = <<>>
                  /\ LocalUnchanged(e)
           /\ \A k \in ApiCalls(e.calls, "run") :
                  e.calls[k].id # None /\ e.calls[k].id = e.id0
    /\ (Called /\ LastCall.op = "print_response") =>
           LET e == LastCall IN
           /\ \A k \in ApiCalls(e.calls, "run") :
                  /\ e.calls[k].id # None
                  /\ RunAfterAdd(e, k)
           /\ e.exc = "none" => NumApi(e, "run") = 1
           /\ e.exc # "IdNotSet"

\* print_response() returned on a thread that had no id: the thread was
\* created with the message, then the run was started on it.
C25_Witness ==
    /\ Called
    /\ LastCall.op = "print_response"
    /\ LastCall.id0 = None
    /\ LastCall.exc = "none"
    /\ LastCall.calls[1].api = "create"
    /\ LastCall.calls[2].api = "run"
    /\ LastCall.calls[2].id = t_id

\* C26: a delete() that returned leaves the Assistant its id and its cached
\* remote object; the get(use_cache=true) or get_or_create(use_cache=true)
\* that follows returns the assistant having sent no API call; and no
\* get_or_create on an Assistant that has an id sends a create, an id once
\* set never being unset.
C26_DeleteKeepsLocalState ==
    (Called /\ LastCall.kind = "assistant") =>
        LET e == LastCall IN
        /\ (e.op = "delete" /\ e.exc = "none") =>
               /\ e.id1 = e.id0 /\ e.id1 # None
               /\ e.cached1 = e.id1
               /\ e.id1 \notin a_live
        /\ (e.prev = "delete" /\ e.op \in {"get", "get_or_create"}
              /\ e.use_cache) =>
               /\ e.calls = <<>>
               /\ e.exc = "none"
               /\ e.ret = e.id0
               /\ LocalUnchanged(e)
               /\ e.cached0 # None
        /\ (e.op = "get_or_create" /\ (e.prev = "delete" \/ e.id0 # None)) =>
               NumApi(e, "create") = 0
        /\ e.id0 # None => e.id1 # None

\* get_or_create(use_cache=true) right after a delete that returned.
C26_Witness ==
    /\ Called
    /\ LastCall.kind = "assistant"
    /\ LastCall.op = "get_or_create"
    /\ LastCall.use_cache
    /\ LastCall.prev = "delete"
    /\ LastCall.calls = <<>>
    /\ LastCall.id1 \notin a_live

====
